---- MODULE Spec2Model ----
(***************************************************************************)
(* SETTINGS frame of h2: src/frame/settings.rs.                            *)
(*                                                                         *)
(* A u32 is kept at its full width as a pair <<hi, lo>> of 16-bit halves   *)
(* (value = hi * 65536 + lo); a u16 and a u8 are plain integers.  An       *)
(* Option<T> is a sequence of length at most one.  A BTreeMap<u16, u32> is *)
(* the sequence of its <<key, value>> entries in ascending key order.      *)
(***************************************************************************)
EXTENDS Integers, Sequences, FiniteSets, TLC

VARIABLES
    settings,   \* the Settings value the caller holds, or NoSettings
    dst,        \* the BytesMut handed to the most recent encode
    head,       \* the frame head of the received frame
    payload,    \* the payload bytes of the received frame
    recs,       \* the <<id, value>> records the received payload was built from
    result,     \* what the most recent call returned
    pure,       \* settings was built from default() by typed setters with legal values
    unordered   \* some insert into settings' map was not at the largest key

vars == <<settings, dst, head, payload, recs, result, pure, unordered>>

----------------------------------------------------------------------------
(* Bounds of the model *)

MaxRecords == 2     \* records in a received payload
MaxExtra == 1       \* bytes trailing the last whole record of a received payload

----------------------------------------------------------------------------
(* Integers of the program *)

U32(hi, lo) == <<hi, lo>>

U32Lt(a, b) == a[1] < b[1] \/ (a[1] = b[1] /\ a[2] < b[2])

U32Gt(a, b) == U32Lt(b, a)

U32Le(a, b) == ~U32Lt(b, a)

RECURSIVE BitAnd(_, _)
BitAnd(a, b) ==
    IF a = 0 \/ b = 0 THEN 0
    ELSE (a % 2) * (b % 2) + 2 * BitAnd(a \div 2, b \div 2)

None == <<>>

Some(v) == <<v>>

----------------------------------------------------------------------------
(* Constants *)

ACK == 1

ALL == ACK

DEFAULT_MAX_FRAME_SIZE == U32(0, 16384)

MAX_INITIAL_WINDOW_SIZE == U32(32767, 65535)

MAX_MAX_FRAME_SIZE == U32(255, 65535)

HEADER_TABLE_SIZE == 1

ENABLE_PUSH == 2

MAX_CONCURRENT_STREAMS == 3

INITIAL_WINDOW_SIZE == 4

MAX_FRAME_SIZE == 5

MAX_HEADER_LIST_SIZE == 6

----------------------------------------------------------------------------
(* SettingsFlags *)

FlagsEmpty == 0

FlagsLoad(bits) == BitAnd(bits, ALL)

FlagsAck == ACK

FlagsIsAck(f) == BitAnd(f, ACK) = ACK

FlagsInto(f) == f

----------------------------------------------------------------------------
(* BTreeMap<u16, u32> *)

RECURSIVE BTreeInsert(_, _, _)
BTreeInsert(m, k, v) ==
    IF m = <<>> THEN << <<k, v>> >>
    ELSE IF Head(m)[1] = k THEN << <<k, v>> >> \o Tail(m)
    ELSE IF Head(m)[1] > k THEN << <<k, v>> >> \o m
    ELSE << Head(m) >> \o BTreeInsert(Tail(m), k, v)

BTreeRemove(m, k) == SelectSeq(m, LAMBDA e : e[1] # k)

BTreeGet(m, k) ==
    IF \E i \in 1..Len(m) : m[i][1] = k
    THEN Some(m[CHOOSE i \in 1..Len(m) : m[i][1] = k][2])
    ELSE None

----------------------------------------------------------------------------
(* Settings: construction, accessors, mutation *)

NoSettings == [tag |-> "None"]

SettingsDefault == [flags |-> FlagsEmpty, fields |-> <<>>]

SettingsAck == [SettingsDefault EXCEPT !.flags = FlagsAck]

is_ack(s) == FlagsIsAck(s.flags)

get(s, id) == BTreeGet(s.fields, id)

setFirstWins(s, id, val) ==
    IF val # None
    THEN IF BTreeGet(s.fields, id) = None
         THEN [s EXCEPT !.fields = BTreeInsert(@, id, val[1])]
         ELSE s
    ELSE [s EXCEPT !.fields = BTreeRemove(@, id)]

set(s, id, val) ==
    IF val # None
    THEN [s EXCEPT !.fields = BTreeInsert(@, id, val[1])]
    ELSE [s EXCEPT !.fields = BTreeRemove(@, id)]

is_push_enabled(s) ==
    (IF get(s, ENABLE_PUSH) = None THEN U32(0, 1) ELSE get(s, ENABLE_PUSH)[1]) # U32(0, 0)

----------------------------------------------------------------------------
(* Setting *)

Opaque(id, val) == [kind |-> "Opaque", id |-> id, val |-> val]

Known(kind, val) == [kind |-> kind, val |-> val]

from_idDropUnknown(id, val) ==
    CASE id = HEADER_TABLE_SIZE -> Some(Known("HeaderTableSize", val))
      [] id = ENABLE_PUSH -> Some(Known("EnablePush", val))
      [] id = MAX_CONCURRENT_STREAMS -> Some(Known("MaxConcurrentStreams", val))
      [] id = INITIAL_WINDOW_SIZE -> Some(Known("InitialWindowSize", val))
      [] id = MAX_FRAME_SIZE -> Some(Known("MaxFrameSize", val))
      [] id = MAX_HEADER_LIST_SIZE -> Some(Known("MaxHeaderListSize", val))
      [] OTHER -> None

from_id(id, val) ==
    CASE id = HEADER_TABLE_SIZE -> Some(Known("HeaderTableSize", val))
      [] id = ENABLE_PUSH -> Some(Known("EnablePush", val))
      [] id = MAX_CONCURRENT_STREAMS -> Some(Known("MaxConcurrentStreams", val))
      [] id = INITIAL_WINDOW_SIZE -> Some(Known("InitialWindowSize", val))
      [] id = MAX_FRAME_SIZE -> Some(Known("MaxFrameSize", val))
      [] id = MAX_HEADER_LIST_SIZE -> Some(Known("MaxHeaderListSize", val))
      [] OTHER -> Some(Opaque(id, val))

\* unpack_octets_4!(raw, offset, u32): four octets, most significant first
unpack_octets_4(raw, offset) ==
    U32(raw[offset + 1] * 256 + raw[offset + 2], raw[offset + 3] * 256 + raw[offset + 4])

\* raw is indexed from 0 in the source and from 1 here
SettingLoad(raw) ==
    LET id == raw[1] * 256 + raw[2]
        val == unpack_octets_4(raw, 2)
    IN from_id(id, val)

put_u16_le(n) == <<n % 256, n \div 256>>

put_u16_be(n) == <<n \div 256, n % 256>>

put_u32_be(v) == <<v[1] \div 256, v[1] % 256, v[2] \div 256, v[2] % 256>>

SettingEncode(setting) ==
    LET kv == CASE setting.kind = "HeaderTableSize" -> <<HEADER_TABLE_SIZE, setting.val>>
                [] setting.kind = "EnablePush" -> <<ENABLE_PUSH, setting.val>>
                [] setting.kind = "MaxConcurrentStreams" -> <<MAX_CONCURRENT_STREAMS, setting.val>>
                [] setting.kind = "InitialWindowSize" -> <<INITIAL_WINDOW_SIZE, setting.val>>
                [] setting.kind = "MaxFrameSize" -> <<MAX_FRAME_SIZE, setting.val>>
                [] setting.kind = "MaxHeaderListSize" -> <<MAX_HEADER_LIST_SIZE, setting.val>>
                [] setting.kind = "Opaque" -> <<setting.id, setting.val>>
    IN put_u16_be(kv[1]) \o put_u32_be(kv[2])

----------------------------------------------------------------------------
(* Frame head and output buffer (frame::Head, bytes::BytesMut) *)

HeadNew(kind, flag, stream_id) == [kind |-> kind, flag |-> flag, stream_id |-> stream_id]

EmptyBuf == [heads |-> <<>>, bytes |-> <<>>]

HeadEncode(h, payload_len, buf) ==
    [buf EXCEPT !.heads = Append(@, [head |-> h, len |-> payload_len])]

RECURSIVE Concat(_)
Concat(seqs) == IF seqs = <<>> THEN <<>> ELSE Head(seqs) \o Concat(Tail(seqs))

----------------------------------------------------------------------------
(* Settings::load *)

Ok(s) == [tag |-> "Ok", val |-> s]

Err(e) == [tag |-> "Err", err |-> e]

Unit == [tag |-> "unit"]

Panic == [tag |-> "panic"]

EnablePushOk(val) == val = U32(0, 0) \/ val = U32(0, 1)

InitialWindowSizeOk(val) == ~U32Gt(val, MAX_INITIAL_WINDOW_SIZE)

MaxFrameSizeOkOffByOne(val) ==
    ~(U32Le(val, DEFAULT_MAX_FRAME_SIZE) \/ U32Gt(val, MAX_MAX_FRAME_SIZE))

MaxFrameSizeOk(val) ==
    ~(U32Lt(val, DEFAULT_MAX_FRAME_SIZE) \/ U32Gt(val, MAX_MAX_FRAME_SIZE))

\* the body of `for raw in payload.chunks(6)`, with the early returns
RECURSIVE LoadChunks(_, _)
LoadChunks(s, rest) ==
    IF rest = <<>> THEN Ok(s)
    ELSE
        LET n == IF Len(rest) < 6 THEN Len(rest) ELSE 6
            raw == SubSeq(rest, 1, n)
            more == SubSeq(rest, n + 1, Len(rest))
            parsed == SettingLoad(raw)
        IN  IF parsed = None THEN LoadChunks(s, more)
            ELSE
              LET st == parsed[1] IN
              CASE st.kind = "HeaderTableSize" ->
                     LoadChunks(set(s, HEADER_TABLE_SIZE, Some(st.val)), more)
                [] st.kind = "EnablePush" ->
                     IF EnablePushOk(st.val)
                     THEN LoadChunks(set(s, ENABLE_PUSH, Some(st.val)), more)
                     ELSE Err("InvalidSettingValue")
                [] st.kind = "MaxConcurrentStreams" ->
                     LoadChunks(set(s, MAX_CONCURRENT_STREAMS, Some(st.val)), more)
                [] st.kind = "InitialWindowSize" ->
                     IF ~InitialWindowSizeOk(st.val)
                     THEN Err("InvalidSettingValue")
                     ELSE LoadChunks(set(s, INITIAL_WINDOW_SIZE, Some(st.val)), more)
                [] st.kind = "MaxFrameSize" ->
                     IF ~MaxFrameSizeOk(st.val)
                     THEN Err("InvalidSettingValue")
                     ELSE LoadChunks(set(s, MAX_FRAME_SIZE, Some(st.val)), more)
                [] st.kind = "MaxHeaderListSize" ->
                     LoadChunks(set(s, MAX_HEADER_LIST_SIZE, Some(st.val)), more)
                [] st.kind = "Opaque" ->
                     LoadChunks(set(s, st.id, Some(st.val)), more)

loadLengthFirst(h, p) ==
    IF Len(p) % 6 # 0 THEN Err("InvalidPayloadAckSettings")
    ELSE IF h.stream_id # 0 THEN Err("InvalidStreamId")
    ELSE
        LET flag == FlagsLoad(h.flag) IN
        IF FlagsIsAck(flag)
        THEN IF Len(p) > 0 THEN Err("InvalidPayloadLength") ELSE Ok(SettingsAck)
        ELSE LoadChunks(SettingsDefault, p)

loadExactFlag(h, p) ==
    IF h.stream_id # 0 THEN Err("InvalidStreamId")
    ELSE
        IF h.flag = ACK
        THEN IF Len(p) > 0 THEN Err("InvalidPayloadLength") ELSE Ok(SettingsAck)
        ELSE IF Len(p) % 6 # 0 THEN Err("InvalidPayloadAckSettings")
        ELSE LoadChunks(SettingsDefault, p)

load(h, p) ==
    IF h.stream_id # 0 THEN Err("InvalidStreamId")
    ELSE
        LET flag == FlagsLoad(h.flag) IN
        IF FlagsIsAck(flag)
        THEN IF Len(p) > 0 THEN Err("InvalidPayloadLength") ELSE Ok(SettingsAck)
        ELSE IF Len(p) % 6 # 0 THEN Err("InvalidPayloadAckSettings")
        ELSE LoadChunks(SettingsDefault, p)

----------------------------------------------------------------------------
(* Settings::encode *)

for_eachReversed(s) ==
    [i \in 1..Len(s.fields) |->
        Opaque(s.fields[Len(s.fields) + 1 - i][1], s.fields[Len(s.fields) + 1 - i][2])]

\* the Setting values handed to the closure, in the order of the calls
for_each(s) == [i \in 1..Len(s.fields) |-> Opaque(s.fields[i][1], s.fields[i][2])]

RECURSIVE AddSix(_, _)
AddSix(len, items) == IF items = <<>> THEN len ELSE AddSix(len + 6, Tail(items))

payload_len(s) == AddSix(0, for_each(s))

encode(s, buf) ==
    LET h == HeadNew("Settings", FlagsInto(s.flags), 0)
        len == payload_len(s)
        withHead == HeadEncode(h, len, buf)
        items == for_each(s)
    IN  [withHead EXCEPT
            !.bytes = @ \o Concat([i \in 1..Len(items) |-> SettingEncode(items[i])])]

----------------------------------------------------------------------------
(* Inputs: the arguments the callers pass *)

Flags == {0, 1, 254, 255}

StreamIds == {0, 1}

Heads == {HeadNew("Settings", f, sid) : f \in Flags, sid \in StreamIds}

Records ==
    {<<HEADER_TABLE_SIZE, U32(0, 0)>>, <<HEADER_TABLE_SIZE, U32(65535, 65535)>>,
     <<ENABLE_PUSH, U32(0, 0)>>, <<ENABLE_PUSH, U32(0, 1)>>, <<ENABLE_PUSH, U32(0, 2)>>,
     <<MAX_CONCURRENT_STREAMS, U32(65535, 65535)>>,
     <<INITIAL_WINDOW_SIZE, U32(0, 100)>>, <<INITIAL_WINDOW_SIZE, U32(0, 200)>>,
     <<INITIAL_WINDOW_SIZE, U32(32767, 65535)>>, <<INITIAL_WINDOW_SIZE, U32(32768, 0)>>,
     <<MAX_FRAME_SIZE, U32(0, 16383)>>, <<MAX_FRAME_SIZE, U32(0, 16384)>>,
     <<MAX_FRAME_SIZE, U32(255, 65535)>>, <<MAX_FRAME_SIZE, U32(256, 0)>>,
     <<MAX_HEADER_LIST_SIZE, U32(0, 0)>>,
     <<0, U32(0, 1)>>, <<153, U32(0, 42)>>, <<153, U32(65535, 65535)>>,
     <<65535, U32(32768, 0)>>}

RecSeqs == UNION {[1..n -> Records] : n \in 0..MaxRecords}

Extras == UNION {[1..n -> {170}] : n \in 0..MaxExtra}

\* the payload a peer sends for the records rs, followed by the bytes ex
WirePayload(rs, ex) ==
    Concat([i \in 1..Len(rs) |-> put_u16_be(rs[i][1]) \o put_u32_be(rs[i][2])]) \o ex

Opt(S) == {None} \cup {Some(v) : v \in S}

SetArgs ==
    {<<HEADER_TABLE_SIZE, U32(0, 0)>>, <<ENABLE_PUSH, U32(0, 2)>>,
     <<INITIAL_WINDOW_SIZE, U32(0, 200)>>, <<MAX_FRAME_SIZE, U32(0, 16383)>>,
     <<153, U32(0, 42)>>}

WindowSizes == {U32(0, 100), U32(32767, 65535), U32(32768, 0)}

StreamCounts == {U32(0, 0), U32(65535, 65535)}

FrameSizes == {U32(0, 16383), U32(0, 16384), U32(255, 65535), U32(256, 0)}

HeaderListSizes == {U32(65535, 65535)}

----------------------------------------------------------------------------
(* Typed setters *)

set_initial_window_size(s, size) == set(s, INITIAL_WINDOW_SIZE, size)

set_max_concurrent_streams(s, max) == set(s, MAX_CONCURRENT_STREAMS, max)

\* the assert! of set_max_frame_size
max_frame_size_assert(size) ==
    size # None =>
        (U32Le(DEFAULT_MAX_FRAME_SIZE, size[1]) /\ U32Le(size[1], MAX_MAX_FRAME_SIZE))

set_max_frame_size(s, size) == set(s, MAX_FRAME_SIZE, size)

set_max_header_list_size(s, size) == set(s, MAX_HEADER_LIST_SIZE, size)

\* enable as u32
set_enable_push(s, enable) ==
    set(s, ENABLE_PUSH, Some(IF enable THEN U32(0, 1) ELSE U32(0, 0)))

----------------------------------------------------------------------------
(* State machine *)

Running == result # Panic

Held == settings # NoSettings /\ Running

\* the insert of set(id, Some(_)) lands below a key already in the map
BelowMax(s, id, val) == val # None /\ \E i \in 1..Len(s.fields) : s.fields[i][1] > id

\* a record of rs is followed by one with a smaller identifier
Descends(rs) == \E i, j \in 1..Len(rs) : i < j /\ rs[i][1] > rs[j][1]

\* a setter call: settings becomes s2; legal says the call keeps `pure`
Mutate(s2, legal, id, val) ==
    /\ settings' = s2
    /\ dst' = EmptyBuf
    /\ result' = Unit
    /\ pure' = (pure /\ legal)
    /\ unordered' = (unordered \/ BelowMax(settings, id, val))
    /\ UNCHANGED <<head, payload, recs>>

\* a constructor call returning r
Construct(r, isDefault, desc) ==
    /\ settings' = IF r.tag = "Ok" THEN r.val ELSE NoSettings
    /\ result' = r
    /\ dst' = EmptyBuf
    /\ pure' = isDefault
    /\ unordered' = (r.tag = "Ok" /\ desc)

Init ==
    /\ settings = NoSettings
    /\ dst = EmptyBuf
    /\ head = HeadNew("Settings", 0, 0)
    /\ payload = <<>>
    /\ recs = <<>>
    /\ result = Unit
    /\ pure = FALSE
    /\ unordered = FALSE

Default ==
    /\ settings = NoSettings /\ Running
    /\ Construct(Ok(SettingsDefault), TRUE, FALSE)
    /\ UNCHANGED <<head, payload, recs>>

Ack ==
    /\ settings = NoSettings /\ Running
    /\ Construct(Ok(SettingsAck), FALSE, FALSE)
    /\ UNCHANGED <<head, payload, recs>>

\* Settings::load on a frame received from the peer
LoadWire ==
    /\ settings = NoSettings /\ Running
    /\ \E h \in Heads, rs \in RecSeqs, ex \in Extras :
          Construct(load(h, WirePayload(rs, ex)), FALSE, Descends(rs))
    /\ UNCHANGED <<head, payload, recs>>

Set ==
    /\ Held
    /\ \E a \in SetArgs, some \in BOOLEAN :
          LET val == IF some THEN Some(a[2]) ELSE None
          IN Mutate(set(settings, a[1], val), FALSE, a[1], val)

SetInitialWindowSize ==
    /\ Held
    /\ \E size \in Opt(WindowSizes) :
          Mutate(set_initial_window_size(settings, size),
                 size # None => size[1][1] < 32768,
                 INITIAL_WINDOW_SIZE, size)

SetMaxConcurrentStreams ==
    /\ Held
    /\ \E max \in Opt(StreamCounts) :
          Mutate(set_max_concurrent_streams(settings, max), TRUE,
                 MAX_CONCURRENT_STREAMS, max)

SetMaxFrameSize ==
    /\ Held
    /\ \E size \in Opt(FrameSizes) :
          IF max_frame_size_assert(size)
          THEN Mutate(set_max_frame_size(settings, size), TRUE, MAX_FRAME_SIZE, size)
          ELSE /\ result' = Panic
               /\ UNCHANGED <<settings, dst, head, payload, recs, pure, unordered>>

SetMaxHeaderListSize ==
    /\ Held
    /\ \E size \in Opt(HeaderListSizes) :
          Mutate(set_max_header_list_size(settings, size), TRUE,
                 MAX_HEADER_LIST_SIZE, size)

SetEnablePush ==
    /\ Held
    /\ \E enable \in BOOLEAN :
          Mutate(set_enable_push(settings, enable), TRUE, ENABLE_PUSH, Some(enable))

\* settings.encode(&mut dst) into a fresh buffer
Encode ==
    /\ Held
    /\ dst' = encode(settings, EmptyBuf)
    /\ result' = Unit
    /\ UNCHANGED <<settings, head, payload, recs, pure, unordered>>

\* Settings::load on the frame just encoded: the emitted head, and the bytes after it
LoadEncoded ==
    /\ Held
    /\ dst # EmptyBuf
    /\ result' = load(dst.heads[1].head, dst.bytes)
    /\ UNCHANGED <<settings, dst, head, payload, recs, pure, unordered>>

Next ==
    \/ Default
    \/ Ack
    \/ LoadWire
    \/ Set
    \/ SetInitialWindowSize
    \/ SetMaxConcurrentStreams
    \/ SetMaxFrameSize
    \/ SetMaxHeaderListSize
    \/ SetEnablePush
    \/ Encode
    \/ LoadEncoded

Spec == Init /\ [][Next]_vars

----------------------------------------------------------------------------
(* Decoding one received frame: the frame is drawn at the start *)

InitLoad ==
    /\ settings = NoSettings
    /\ dst = EmptyBuf
    /\ head \in Heads
    /\ recs \in RecSeqs
    /\ \E ex \in Extras : payload = WirePayload(recs, ex)
    /\ result = Unit
    /\ pure = FALSE
    /\ unordered = FALSE

\* Settings::load(head, payload)
Load ==
    /\ settings = NoSettings /\ result = Unit
    /\ Construct(load(head, payload), FALSE, Descends(recs))
    /\ UNCHANGED <<head, payload, recs>>

NextLoad == Load \/ Encode

SpecLoad == InitLoad /\ [][NextLoad]_vars

----------------------------------------------------------------------------
(* Vocabulary of the properties, stated from the wire format and the range   *)
(* table rather than from the operators above                                *)

\* the record r = <<id, <<hi, lo>>>> carries a value outside its identifier's range
BadRecord(r) ==
    \/ r[1] = 2 /\ r[2] \notin {<<0, 0>>, <<0, 1>>}
    \/ r[1] = 4 /\ r[2][1] >= 32768
    \/ r[1] = 5 /\ ((r[2][1] = 0 /\ r[2][2] < 16384) \/ r[2][1] >= 256)

IsOpaqueId(id) == id \notin 1..6

\* big-endian 16-bit identifier, then big-endian 32-bit value
RecordBytes(r) ==
    <<r[1] \div 256, r[1] % 256,
      r[2][1] \div 256, r[2][1] % 256, r[2][2] \div 256, r[2][2] % 256>>

Entries(s) == {s.fields[i] : i \in 1..Len(s.fields)}

RECURSIVE AscendingBytes(_)
AscendingBytes(E) ==
    IF E = {} THEN <<>>
    ELSE LET e == CHOOSE x \in E : \A y \in E : x[1] <= y[1]
         IN RecordBytes(e) \o AscendingBytes(E \ {e})

Chunk(bytes, k) == SubSeq(bytes, 6 * k - 5, 6 * k)

ChunkId(bytes, k) == bytes[6 * k - 5] * 256 + bytes[6 * k - 4]

\* recs[i] is the last record of the payload with its identifier
LastOfId(i) == \A j \in 1..Len(recs) : j > i => recs[j][1] # recs[i][1]

AckBit == head.flag % 2 = 1

Returned == result.tag \in {"Ok", "Err"}

Encoded == dst # EmptyBuf

RoundTripped == Encoded /\ Returned

NoBadRecord == \A i \in 1..Len(recs) : ~BadRecord(recs[i])

----------------------------------------------------------------------------
(* Properties *)

\* C1: in every reachable Settings, is_ack() implies that the field map is empty.
C1_AckHasNoFields ==
    settings # NoSettings => (settings.flags % 2 = 1 => settings.fields = <<>>)

\* C2: in every reachable Settings, each value stored under a registered
\* identifier is inside that identifier's range.
C2_StoredValuesInRange ==
    settings # NoSettings =>
        \A i \in 1..Len(settings.fields) : ~BadRecord(settings.fields[i])

\* C3: with stream id 0, the ACK bit clear and a payload of whole records, load
\* returns Err(InvalidSettingValue) exactly when some record, at any position, is
\* out of range, and Ok otherwise; on an error no Settings value is returned.
C3_InvalidValueIffBadRecord ==
    (Returned /\ head.stream_id = 0 /\ ~AckBit /\ Len(payload) % 6 = 0) =>
        /\ (result = Err("InvalidSettingValue")) <=> ~NoBadRecord
        /\ NoBadRecord => result.tag = "Ok"
        /\ result.tag = "Err" => settings = NoSettings

C3_Witness ==
    /\ result = Err("InvalidSettingValue")
    /\ settings = NoSettings
    /\ Len(recs) >= 2
    /\ ~BadRecord(recs[1])
    /\ BadRecord(recs[Len(recs)])

\* C4: load reports the first failing check in the order stream id, ACK with a
\* non-empty payload, payload length not a multiple of 6, setting value.
C4_ChecksInOrder ==
    Returned =>
        /\ head.stream_id # 0 => result = Err("InvalidStreamId")
        /\ (head.stream_id = 0 /\ AckBit /\ Len(payload) > 0)
              => result = Err("InvalidPayloadLength")
        /\ (head.stream_id = 0 /\ ~AckBit /\ Len(payload) % 6 # 0)
              => result = Err("InvalidPayloadAckSettings")
        /\ result = Err("InvalidSettingValue")
              => (head.stream_id = 0 /\ ~AckBit /\ Len(payload) % 6 = 0)

C4_Witness ==
    /\ result = Err("InvalidPayloadAckSettings")
    /\ head.stream_id = 0
    /\ Len(payload) = 7
    /\ Len(recs) = 1
    /\ BadRecord(recs[1])

\* C5: bit 0 of the flags byte alone decides whether the frame is an ACK: with
\* stream id 0, bit 0 set and an empty payload give Settings::ack(), bit 0 set
\* and a non-empty payload give Err(InvalidPayloadLength), and bit 0 clear gives
\* a non-ACK decode whatever the other bits are.
C5_AckBitAlone ==
    /\ FlagsLoad(head.flag) = head.flag % 2
    /\ (Returned /\ head.stream_id = 0) =>
          /\ (AckBit /\ payload = <<>>) =>
                /\ result = Ok([flags |-> 1, fields |-> <<>>])
                /\ is_ack(settings)
          /\ (AckBit /\ payload # <<>>) => result = Err("InvalidPayloadLength")
          /\ ~AckBit =>
                /\ result # Err("InvalidPayloadLength")
                /\ result.tag = "Ok" => ~is_ack(result.val)

C5_Witness ==
    /\ head.flag = 255
    /\ head.stream_id = 0
    /\ payload = <<>>
    /\ result.tag = "Ok"
    /\ is_ack(result.val)

\* C6: a successful non-ACK load holds exactly one entry per identifier of the
\* payload, with the value of the last record carrying that identifier.
C6_LastRecordWins ==
    (result.tag = "Ok" /\ ~AckBit) =>
        /\ {e[1] : e \in Entries(result.val)} = {recs[i][1] : i \in 1..Len(recs)}
        /\ Len(result.val.fields) = Cardinality({recs[i][1] : i \in 1..Len(recs)})
        /\ \A i \in 1..Len(recs) :
              LastOfId(i) => get(result.val, recs[i][1]) = Some(recs[i][2])

C6_Witness ==
    /\ recs = << <<4, <<0, 100>> >>, <<4, <<0, 200>> >> >>
    /\ result.tag = "Ok"
    /\ result.val.fields = << <<4, <<0, 200>> >> >>

\* C7: a Settings built from default() by typed setters with legal values is
\* decoded from its own encoding successfully and with an equal field set.
C7_RoundTrip ==
    (RoundTripped /\ pure) =>
        /\ result.tag = "Ok"
        /\ Entries(result.val) = Entries(settings)
        /\ Len(result.val.fields) = Len(settings.fields)

C7_Witness ==
    /\ RoundTripped
    /\ pure
    /\ unordered
    /\ Len(settings.fields) >= 3
    /\ result.tag = "Ok"

\* C8: the bytes encode emits are a function of the ACK flag and the
\* identifier-to-value mapping alone, with the records in strictly ascending
\* identifier order, whatever the order of the setter calls was.
C8_EncodeDeterministic ==
    Encoded =>
        /\ dst.heads = << [head |-> [kind |-> "Settings", flag |-> settings.flags,
                                      stream_id |-> 0],
                           len |-> 6 * Cardinality(Entries(settings))] >>
        /\ dst.bytes = AscendingBytes(Entries(settings))
        /\ \A k \in 1..(Len(dst.bytes) \div 6 - 1) :
              ChunkId(dst.bytes, k) < ChunkId(dst.bytes, k + 1)

C8_Witness ==
    /\ Encoded
    /\ unordered
    /\ Len(dst.bytes) >= 18

\* C9: encode of an ACK instance emits only a head with the ACK flag, stream id
\* 0 and length 0; for every instance the declared length is 6 times the number
\* of fields and the number of record bytes emitted.
C9_AckEncodesHeadOnly ==
    Encoded =>
        /\ settings.flags % 2 = 1 =>
              /\ dst.heads = << [head |-> [kind |-> "Settings", flag |-> 1,
                                            stream_id |-> 0],
                                 len |-> 0] >>
              /\ dst.bytes = <<>>
        /\ dst.heads[1].len = 6 * Len(settings.fields)
        /\ dst.heads[1].len = Len(dst.bytes)

\* C10: a record with an identifier outside 0x1..0x6 never causes a rejection,
\* is stored unchanged under its identifier, and is re-encoded as the identical
\* 6 bytes.
C10_UnknownPassthrough ==
    /\ (Returned /\ head.stream_id = 0 /\ ~AckBit /\ Len(payload) % 6 = 0
          /\ \A i \in 1..Len(recs) : IsOpaqueId(recs[i][1]) \/ ~BadRecord(recs[i]))
          => result.tag = "Ok"
    /\ (settings # NoSettings /\ ~AckBit) =>
          \A i \in 1..Len(recs) :
              (IsOpaqueId(recs[i][1]) /\ LastOfId(i)) =>
                  /\ get(settings, recs[i][1]) = Some(recs[i][2])
                  /\ Encoded =>
                        \E k \in 1..(Len(dst.bytes) \div 6) :
                            /\ Chunk(dst.bytes, k) = Chunk(payload, i)
                            /\ Chunk(dst.bytes, k) = RecordBytes(recs[i])

C10_Witness ==
    /\ Encoded
    /\ Len(recs) >= 2
    /\ \E i \in 1..Len(recs) : recs[i] = <<153, <<0, 42>> >>
    /\ get(settings, 153) = Some(<<0, 42>>)

====
